---- MODULE Spec2Model ----
(***************************************************************************)
(* A model of the builder-tree persistence engine of pynwb                  *)
(* (src/src/pynwb/form/backends/hdf5/h5tools.py, class HDF5IO): the write   *)
(* walk of a Builder tree into a hierarchical file, the deferred reference  *)
(* queue, and the read walk of the file back into Builders.                 *)
(*                                                                         *)
(* A path is a sequence of names; << >> is the file root "/".               *)
(***************************************************************************)
EXTENDS Integers, Sequences, FiniteSets, TLC

VARIABLES
    T,          \* the Builder tree handed to write_builder: node id -> builder
    treeSource, \* Builder.source of the builders of the tree
    file,       \* the physical file: path -> entry
    pc,         \* position of the session
    stack,      \* call stack of the write walk (write_builder / write_group frames)
    ref_queue,  \* HDF5IO.__ref_queue
    err,        \* the exception that ended the operation, or NoErr
    handle,     \* HDF5IO.__file: "none", "open" or "closed"
    enq,        \* history: how often a filler was enqueued, per dataset builder
    invoked,    \* history: how often a filler was invoked, per dataset builder
    mainCreated, \* history: datasets created by write_dataset during the main walk
    last,       \* history: the handler that ran last and the builder it was given
    built,      \* HDF5IO.__built of the read session: {<<file name, path, builder>>}
    builders,   \* the Builders the read session has constructed, in order
    rstack,     \* call stack of the read walk (__read_group frames)
    iter,       \* the DataChunkIterator (data) handed to __chunked_iter_fill__
    dset,       \* the dataset __chunked_iter_fill__ creates and fills
    fill,       \* position of __chunked_iter_fill__ and the history of its writes
    descriptor, \* the dtype argument of __resolve_dtype__
    sample,     \* the data argument of __resolve_dtype__
    resolved,   \* what __resolve_dtype__ returned or raised, once it has run
    kwargs,     \* the arguments of FeatureExtraction.__init__: the shape of each array
    extraction, \* the FeatureExtraction object: its fields, or the error raised
    sweep_table, \* the SweepTable: its columns sweep_number and series
    added,      \* history: the PatchClampSeries handed to add_entry, in order
    returned,   \* the call of the SweepTable made last and what it returned
    write_kwargs, \* the keyword arguments of HDF5IO.write
    ns_catalog, \* the namespaces of the manager's catalog
    named,      \* a Builder tree whose builders carry any names: id -> name, parent
    paths       \* the calls of __get_path made so far: {<<builder, path returned>>}

input == <<T, treeSource>>
hist == <<enq, invoked, mainCreated>>
readVars == <<built, builders, rstack>>
\* the state of one write and read session of an HDF5IO
session == <<T, treeSource, file, pc, stack, ref_queue, err, handle, enq, invoked,
             mainCreated, last, built, builders, rstack>>
\* the state of one call of __chunked_iter_fill__
chunked == <<iter, dset, fill>>
\* what a session of HDF5IO.write_builder / read_builder leaves alone
\* the state of one call of __resolve_dtype__
resolving == <<descriptor, sample, resolved>>
\* the state of one construction of a FeatureExtraction
constructing == <<kwargs, extraction>>
\* the state of a SweepTable
sweeping == <<sweep_table, added, returned>>
\* the arguments of HDF5IO.write besides the container
caching == <<write_kwargs, ns_catalog>>
\* the state of the calls of __get_path on one tree
pathing == <<named, paths>>
side == <<chunked, resolving, constructing, sweeping, caching, pathing>>
vars == <<session, side>>

----------------------------------------------------------------------------
(* Bounds of the model *)

\* builders of a tree besides the root
NodeIds == {1, 2, 3}

----------------------------------------------------------------------------
(* Program constants *)

ROOT_NAME == "root"

\* HDF5IO.__path: the file this session writes and reads
ThisPath == "this.h5"
\* another file, the source of the builder ExtB
OtherPath == "other.h5"
\* Builder.source of a purely in-memory builder (Python None)
NoSource == "None"

----------------------------------------------------------------------------
(* Builders *)

Root == 0
\* a builder that lives in OtherPath, at /x there
ExtB == 8
\* a builder of another in-memory tree, with no source
Orphan == 9
NoId == 99

BuilderName(b) ==
    CASE b = Root -> ROOT_NAME
      [] b = 1 -> "n1"
      [] b = 2 -> "n2"
      [] b = 3 -> "n3"
      [] b = ExtB -> "x"
      [] OTHER -> "o"

DatasetKinds == {"scalar", "list", "objref", "region", "compound", "reflist"}
\* a DatasetBuilder whose data is an h5py Dataset: a handle to a stored dataset
HandleKind == "handle"
RefKinds == {"objref", "region", "compound", "reflist"}

IsGroupB(t, b) == b = Root \/ (b \in NodeIds /\ t[b].kind = "group")
IsDatasetB(t, b) ==
    \/ b \in NodeIds /\ t[b].kind \in DatasetKinds \cup {HandleKind}
    \/ b = ExtB
    \/ b = Orphan

BuilderParent(t, b) == IF b \in NodeIds THEN t[b].parent ELSE NoId

BuilderSource(t, src, b) ==
    CASE b = ExtB -> OtherPath
      [] b = Orphan -> NoSource
      [] OTHER -> src

\* builder.groups / builder.datasets / builder.links of a GroupBuilder
Groups(t, g) == {c \in NodeIds : t[c].parent = g /\ t[c].kind = "group"}
Datasets(t, g) ==
    {c \in NodeIds : t[c].parent = g /\ t[c].kind \in DatasetKinds \cup {HandleKind}}
Links(t, g) == {c \in NodeIds : t[c].parent = g /\ t[c].kind = "link"}

\* the builders a link or a reference of node i may name
LinkTargets(i) == ({Root} \cup NodeIds \cup {ExtB, Orphan}) \ {i}
RefTargets(k, i) ==
    CASE k = "objref" -> ({Root} \cup NodeIds \cup {Orphan}) \ {i}
      [] k = "region" -> ({Root} \cup NodeIds) \ {i}
      [] k = "compound" -> {Root, Orphan}
      [] OTHER -> {Root}

\* the stored datasets a handle can be open on: /n1 of the file being written, when
\* the file had it before the session, and /x of OtherPath
StoredHere == 6
StoredThere == 7
Stored == {StoredHere, StoredThere}
\* data.file.filename and data.name of the handle
HandleFile(x) == IF x = StoredHere THEN ThisPath ELSE OtherPath
HandlePath(x) == IF x = StoredHere THEN <<"n1">> ELSE <<"x">>

Parents(i) == {Root} \cup {j \in NodeIds : j < i}

NodeRecs(i) ==
    {[kind |-> k, parent |-> p, target |-> NoId] :
        k \in {"none", "group", "scalar", "list"}, p \in Parents(i)}
    \cup {[kind |-> "link", parent |-> p, target |-> x] :
        p \in Parents(i), x \in LinkTargets(i)}
    \cup UNION {{[kind |-> k, parent |-> p, target |-> x] :
                    p \in Parents(i), x \in RefTargets(k, i)} : k \in RefKinds}
    \cup {[kind |-> HandleKind, parent |-> p, target |-> x] :
        p \in Parents(i), x \in Stored}

WellFormedTree(t) ==
    \A i \in NodeIds :
        /\ IsGroupB(t, t[i].parent)
        /\ t[i].kind = "none" => /\ t[i].parent = Root
                                 /\ \A j \in NodeIds : j > i => t[j].kind = "none"
        /\ t[i].target \in NodeIds => t[t[i].target].kind \in {"group"} \cup DatasetKinds

Trees == {t \in {<<r1, r2, r3>> : r1 \in NodeRecs(1), r2 \in NodeRecs(2), r3 \in NodeRecs(3)} :
            WellFormedTree(t)}

----------------------------------------------------------------------------
(* The physical file *)

NoData == [tag |-> "none", val |-> 0, path |-> << >>, region |-> 0]

MkEntry(kind, origin, ndims, data, attrs, tpath, tfile) ==
    [kind |-> kind, origin |-> origin, ndims |-> ndims, data |-> data,
     attrs |-> attrs, tpath |-> tpath, tfile |-> tfile]

GroupEntry(origin) == MkEntry("group", origin, -1, NoData, {}, << >>, "")
DatasetEntry(origin, ndims, data) == MkEntry("dataset", origin, ndims, data, {}, << >>, "")
SoftLink(path) == MkEntry("soft", NoId, -1, NoData, {}, path, "")
ExternalLink(fname, path) == MkEntry("external", NoId, -1, NoData, {}, path, fname)

\* a file that holds nothing but its root group
EmptyFile == [p \in {<< >>} |-> GroupEntry(NoId)]

\* the file of mode "a" that already holds a dataset /n1
ExistingFile ==
    [p \in {<< >>, <<"n1">>} |->
        IF p = << >> THEN GroupEntry(NoId)
        ELSE DatasetEntry(NoId, 0, [tag |-> "int", val |-> 7, path |-> << >>, region |-> 0])]

Put(f, path, e) == [p \in DOMAIN f \cup {path} |-> IF p = path THEN e ELSE f[p]]

\* the content of OtherPath: one dataset /x
OtherFile ==
    [p \in {<< >>, <<"x">>} |->
        IF p = << >> THEN GroupEntry(NoId)
        ELSE DatasetEntry(NoId, 0, [tag |-> "int", val |-> 5, path |-> << >>, region |-> 0])]

\* no path: what a lookup of a name that is not in the file gives
Missing == <<"">>

\* h5py: file[path], following soft links inside the file
RECURSIVE Follow(_, _, _)
Follow(f, path, fuel) ==
    IF path \notin DOMAIN f \/ fuel = 0 THEN Missing
    ELSE IF f[path].kind = "soft" THEN Follow(f, f[path].tpath, fuel - 1)
    ELSE path

Resolve(f, path) == Follow(f, path, Cardinality(DOMAIN f))

----------------------------------------------------------------------------
(* Errors *)

\* type: the exception's type; cause: "exists" when h5py refused a name that is in
\* use; ctx: whether the message states the name and the parent's path
NoErr == [type |-> "none", cause |-> "", name |-> "", parent |-> << >>, ctx |-> FALSE]
\* an exception of h5py or Python, passed on as it is
RawErr(type) == [type |-> type, cause |-> "", name |-> "", parent |-> << >>, ctx |-> FALSE]
\* h5py: "Unable to create ... (name already exists)"
ExistsErr == [type |-> "ValueError", cause |-> "exists", name |-> "", parent |-> << >>,
              ctx |-> FALSE]
\* raise_from(Exception("Could not create ... %s in %s" % (name, parent.name)), exc)
WrappedErr(name, parent) ==
    [type |-> "Exception", cause |-> "exists", name |-> name, parent |-> parent, ctx |-> TRUE]

----------------------------------------------------------------------------
(* set_attributes, __get_path *)

Attributes(b) == {<<"a", b>>}

\* obj.attrs[key] = value for every item
SetAttributes(f, path, attributes) ==
    [f EXCEPT ![path].attrs =
        {kv \in @ : \A n \in attributes : n[1] # kv[1]} \cup attributes]

RECURSIVE GetPath(_, _)
GetPath(t, curr) ==
    IF curr = NoId \/ BuilderName(curr) = ROOT_NAME THEN << >>
    ELSE Append(GetPath(t, BuilderParent(t, curr)), BuilderName(curr))

----------------------------------------------------------------------------
(* The write path *)

\* what a step of the write path gives: the file, the queue, the exception raised
Outcome(f, q, e) == [file |-> f, queue |-> q, err |-> e]

\* __queue_ref: self.__ref_queue.append(func)
QueueRef(q, func) == Append(q, func)

\* __add_refs that takes the oldest action of the queue: pop(0)
PopIndexFirst(q) == 1

\* __add_refs: call = self.__ref_queue.pop()
PopIndex(q) == Len(q)

Remove(q, i) == [j \in 1..(Len(q) - 1) |-> IF j < i THEN q[j] ELSE q[j + 1]]

NoRegion == 0
RegionOf(b) == 1

\* __get_ref(container, region): [err, data]
\* ValueError('cannot create region reference without Dataset')
NoDatasetErr == [RawErr("ValueError") EXCEPT !.cause = "no dataset"]

\* __get_ref that asks for the region of whatever the path names
GetRefUnchecked(t, f, target, region) ==
    LET real == Resolve(f, GetPath(t, target)) IN
    IF real = Missing THEN [err |-> RawErr("KeyError"), data |-> NoData]
    ELSE [err |-> NoErr,
          data |-> [tag |-> IF region # NoRegion THEN "regionref" ELSE "ref", val |-> 0,
                    path |-> real, region |-> region]]

GetRef(t, f, target, region) ==
    LET real == Resolve(f, GetPath(t, target)) IN
    IF real = Missing THEN [err |-> RawErr("KeyError"), data |-> NoData]
    ELSE IF region # NoRegion
         THEN IF f[real].kind # "dataset"
              THEN [err |-> NoDatasetErr, data |-> NoData]
              ELSE [err |-> NoErr,
                    data |-> [tag |-> "regionref", val |-> 0, path |-> real, region |-> region]]
         ELSE [err |-> NoErr,
               data |-> [tag |-> "ref", val |-> 0, path |-> real, region |-> NoRegion]]

\* parent.create_dataset(name, ...) of h5py, then set_attributes(dset, attributes)
CreateDataset(f, parent, b, ndims, data) ==
    SetAttributes(Put(f, Append(parent, BuilderName(b)), DatasetEntry(b, ndims, data)),
                  Append(parent, BuilderName(b)), Attributes(b))

\* the deferred action _filler of write_dataset, for the dataset builder func.b under
\* the group func.parent
Filler(t, f, func) ==
    LET b == func.b
        ref == GetRef(t, f, t[b].target,
                      IF t[b].kind = "region" THEN RegionOf(b) ELSE NoRegion)
        path == Append(func.parent, BuilderName(b))
    IN  IF ref.err # NoErr THEN [file |-> f, err |-> ref.err]
        ELSE IF path \in DOMAIN f THEN [file |-> f, err |-> ExistsErr]
        ELSE IF t[b].kind = "compound"
             THEN [file |-> CreateDataset(f, func.parent, b, 1,
                                [ref.data EXCEPT !.tag = "refrow", !.val = b]),
                   err |-> NoErr]
             ELSE [file |-> CreateDataset(f, func.parent, b, 0, ref.data), err |-> NoErr]

\* __is_ref / isinstance(data, Builder): the dataset writes that write_dataset defers
IsDeferred(kind) == kind \in {"objref", "region", "compound"}

IntData(v) == [tag |-> "int", val |-> v, path |-> << >>, region |-> 0]
EmptyRefs == [tag |-> "empty", val |-> 0, path |-> << >>, region |-> 0]

\* os.path.relpath(data_filename, os.path.dirname(parent_filename)): the files of
\* the model are in one directory
RelPath(fname) == fname

\* write_dataset that stores the values of the handle in a dataset of its own
HandleLinkCopy(fname, x) == DatasetEntry(NoId, 0, IntData(x))

\* write_dataset, data an h5py Dataset: the link to it; fname is parent.file.filename
HandleLink(fname, x) ==
    IF HandleFile(x) # fname THEN ExternalLink(RelPath(HandleFile(x)), HandlePath(x))
    ELSE SoftLink(HandlePath(x))

\* write_dataset(parent, builder)
WriteDataset(t, f, q, parent, b) ==
    LET path == Append(parent, BuilderName(b))
        kind == t[b].kind
    IN  IF IsDeferred(kind)
        THEN Outcome(f, QueueRef(q, [b |-> b, parent |-> parent]), NoErr)
        \* parent[name] = link, and no set_attributes
        ELSE IF kind = HandleKind
        THEN IF path \in DOMAIN f THEN Outcome(f, q, ExistsErr)
             ELSE Outcome(Put(f, path, [HandleLink(ThisPath, t[b].target)
                                            EXCEPT !.origin = b]), q, NoErr)
        ELSE IF path \in DOMAIN f
        THEN Outcome(f, q, WrappedErr(BuilderName(b), parent))
        ELSE IF kind = "scalar"
        THEN Outcome(CreateDataset(f, parent, b, 0, IntData(b)), q, NoErr)
        ELSE IF kind = "list"
        THEN Outcome(CreateDataset(f, parent, b, 1, IntData(b)), q, NoErr)
        \* a list of Builders under a reference dtype: __list_fill__ creates the
        \* dataset, and dset[:] = data raises
        ELSE Outcome(Put(f, path, DatasetEntry(b, 1, EmptyRefs)), q, RawErr("TypeError"))

\* write_link that stores a copy of the target group under the link's name
LinkObjCopy(t, src, fname, target) == GroupEntry(target)

\* write_link that does not look at the target's source
LinkObjAlwaysSoft(t, src, fname, target) == SoftLink(GetPath(t, target))

\* write_link: the link object for the target, or the "cannot create external link" error
LinkObj(t, src, fname, target) ==
    IF fname = BuilderSource(t, src, target) THEN SoftLink(GetPath(t, target))
    ELSE IF BuilderSource(t, src, target) # NoSource
    THEN ExternalLink(BuilderSource(t, src, target), GetPath(t, target))
    ELSE MkEntry("error", NoId, -1, NoData, {}, GetPath(t, target), "")

\* write_link(parent, builder)
WriteLink(t, src, f, q, parent, b) ==
    LET obj == LinkObj(t, src, ThisPath, t[b].target)
        path == Append(parent, BuilderName(b))
    IN  IF obj.kind = "error" THEN Outcome(f, q, RawErr("ValueError"))
        ELSE IF path \in DOMAIN f THEN Outcome(f, q, ExistsErr)
        ELSE Outcome(Put(f, path, [obj EXCEPT !.origin = b]), q, NoErr)

\* a frame of write_group (or of write_builder, for the root): the group builder b,
\* its h5py group grp, the loop it is in and the children that loop has still to visit
\* write_group that writes the links of a group before its sub-groups and datasets
PhasesLinksFirst(b) == IF b = Root THEN <<"groups", "datasets", "attrs">>
                       ELSE <<"links", "groups", "datasets", "attrs">>

Phases(b) == IF b = Root THEN <<"groups", "datasets", "attrs">>
             ELSE <<"groups", "datasets", "links", "attrs">>

Children(t, b, phase) ==
    CASE phase = "groups" -> Groups(t, b)
      [] phase = "datasets" -> Datasets(t, b)
      [] phase = "links" -> Links(t, b)
      [] OTHER -> {}

\* the first loop from position i on that has something to visit
RECURSIVE Enter(_, _, _, _)
Enter(t, b, grp, i) ==
    IF Phases(b)[i] = "attrs" \/ Children(t, b, Phases(b)[i]) # {}
    THEN [b |-> b, grp |-> grp, i |-> i, phase |-> Phases(b)[i],
          todo |-> Children(t, b, Phases(b)[i])]
    ELSE Enter(t, b, grp, i + 1)

\* the frame after child c of its current loop has been handled
Visited(t, fr, c) ==
    IF fr.todo \ {c} # {} THEN [fr EXCEPT !.todo = @ \ {c}]
    ELSE Enter(t, fr.b, fr.grp, fr.i + 1)

Top == stack[Len(stack)]
Rest == SubSeq(stack, 1, Len(stack) - 1)

Fail(e) ==
    /\ pc' = "failed"
    /\ err' = e

Did(op, b) == last' = [op |-> op, b |-> b]

\* write_builder: self.open(), and the walk begins
write_builder ==
    /\ pc = "init"
    /\ pc' = "write"
    /\ handle' = "open"
    /\ stack' = <<Enter(T, Root, << >>, 1)>>
    /\ Did("write_builder", Root)
    /\ UNCHANGED <<input, side, file, ref_queue, err, hist, readVars>>

\* the most actions one dataset builder enqueues over the write_builder calls made
\* on one HDF5IO object
MaxWrites == 2

\* write_builder called again on the same HDF5IO object, with the same builder,
\* after an earlier call has returned or raised: self.open() opens the file of
\* mode "a" as it is, and nothing else of the object is touched before the walk
write_builder_again ==
    /\ pc \in {"done", "failed"}
    /\ \A b \in NodeIds : enq[b] < MaxWrites
    /\ pc' = "write"
    /\ err' = NoErr
    /\ handle' = "open"
    /\ stack' = <<Enter(T, Root, << >>, 1)>>
    /\ Did("write_builder", Root)
    /\ UNCHANGED <<input, side, file, ref_queue, hist, readVars>>

\* write_group(parent, builder): parent.create_group(builder.name)
write_group ==
    /\ pc = "write"
    /\ Top.phase = "groups"
    /\ \E c \in Top.todo :
        LET path == Append(Top.grp, BuilderName(c)) IN
        /\ Did("write_group", c)
        /\ IF path \in DOMAIN file
           THEN /\ Fail(ExistsErr)
                /\ UNCHANGED <<file, stack>>
           ELSE /\ file' = Put(file, path, GroupEntry(c))
                /\ stack' = Append(Rest, Visited(T, Top, c)) \o <<Enter(T, c, path, 1)>>
                /\ UNCHANGED <<pc, err>>
    /\ UNCHANGED <<input, side, ref_queue, handle, hist, readVars>>

write_dataset ==
    /\ pc = "write"
    /\ Top.phase = "datasets"
    /\ \E c \in Top.todo :
        LET out == WriteDataset(T, file, ref_queue, Top.grp, c) IN
        /\ Did("write_dataset", c)
        /\ file' = out.file
        /\ ref_queue' = out.queue
        /\ enq' = IF Len(out.queue) > Len(ref_queue) THEN [enq EXCEPT ![c] = @ + 1] ELSE enq
        /\ mainCreated' = IF /\ Append(Top.grp, BuilderName(c)) \in DOMAIN out.file \ DOMAIN file
                             /\ out.file[Append(Top.grp, BuilderName(c))].kind = "dataset"
                          THEN mainCreated \cup {c} ELSE mainCreated
        /\ IF out.err # NoErr
           THEN Fail(out.err) /\ UNCHANGED stack
           ELSE /\ stack' = Append(Rest, Visited(T, Top, c))
                /\ UNCHANGED <<pc, err>>
    /\ UNCHANGED <<input, side, handle, invoked, readVars>>

write_link ==
    /\ pc = "write"
    /\ Top.phase = "links"
    /\ \E c \in Top.todo :
        LET out == WriteLink(T, treeSource, file, ref_queue, Top.grp, c) IN
        /\ Did("write_link", c)
        /\ file' = out.file
        /\ IF out.err # NoErr
           THEN Fail(out.err) /\ UNCHANGED stack
           ELSE /\ stack' = Append(Rest, Visited(T, Top, c))
                /\ UNCHANGED <<pc, err>>
    /\ UNCHANGED <<input, side, ref_queue, handle, hist, readVars>>

\* __add_refs that stops one action early
AddRefsLoopOffByOne(q) == IF Len(q) > 1 THEN "refs" ELSE "done"

\* the position after the walk of the root has ended: __add_refs, while len(queue) > 0
AddRefsLoop(q) == IF Len(q) > 0 THEN "refs" ELSE "done"

\* __add_refs called at the end of every write_group
WalkEndedEveryGroup(st) == TRUE

\* write_builder calls __add_refs when the frame that returns is its own
WalkEnded(st) == Len(st) = 1

\* set_attributes(group, builder.attributes), the last statement of write_group;
\* for the root, set_attributes(self.__file, ...) and then self.__add_refs()
set_attributes ==
    /\ pc = "write"
    /\ Top.phase = "attrs"
    /\ file' = SetAttributes(file, Top.grp, Attributes(Top.b))
    /\ stack' = Rest
    /\ pc' = IF WalkEnded(stack) THEN AddRefsLoop(ref_queue) ELSE pc
    /\ Did("set_attributes", Top.b)
    /\ UNCHANGED <<input, side, ref_queue, err, handle, hist, readVars>>

\* __add_refs: call = self.__ref_queue.pop(); call()
add_refs ==
    /\ pc = "refs"
    /\ LET i == PopIndex(ref_queue)
           out == Filler(T, file, ref_queue[i])
       IN  /\ ref_queue' = Remove(ref_queue, i)
           /\ invoked' = [invoked EXCEPT ![ref_queue[i].b] = @ + 1]
           /\ Did("filler", ref_queue[i].b)
           /\ file' = out.file
           /\ IF out.err # NoErr THEN Fail(out.err)
              ELSE pc' = AddRefsLoop(ref_queue') /\ UNCHANGED err
    /\ UNCHANGED <<input, side, stack, handle, enq, mainCreated, readVars>>

\* HDF5IO.close()
close ==
    /\ pc \in {"done", "failed"}
    /\ handle = "open"
    /\ handle' = "closed"
    /\ UNCHANGED <<input, side, file, pc, stack, ref_queue, err, hist, last, readVars>>

----------------------------------------------------------------------------
(* The read path *)

\* the deepest nesting of __read_group calls the interpreter allows
MaxDepth == 5

\* os.path.basename
Basename(path) == IF path = << >> THEN "" ELSE path[Len(path)]

\* the content of the file named fname
FileOf(fname, f) == IF fname = ThisPath THEN f ELSE OtherFile

\* for k in h5obj: the names of the members of the group at path
Keys(f, path) ==
    {p[Len(p)] : p \in {q \in DOMAIN f : /\ Len(q) = Len(path) + 1
                                         /\ SubSeq(q, 1, Len(path)) = path}}

\* a dict as a set of <<key, value>>: d[k] = v
DictPut(d, k, v) == {e \in d : e[1] # k} \cup {<<k, v>>}

\* __get_built(fpath, path): the cached builder, or NoId for None
GetBuilt(c, fpath, path) ==
    IF \E e \in c : e[1] = fpath /\ e[2] = path
    THEN (CHOOSE e \in c : e[1] = fpath /\ e[2] = path)[3]
    ELSE NoId

\* __set_built(fpath, path, builder): setdefault(...).setdefault(path, builder)
SetBuilt(c, fpath, path, builder) ==
    IF GetBuilt(c, fpath, path) # NoId THEN c ELSE c \cup {<<fpath, path, builder>>}

\* a Builder made by the read walk; fname and path are the place of the physical
\* node it was read from
MkBuilder(cls, name, fname, path, attrs, form, data, target, groups, datasets, links) ==
    [cls |-> cls, name |-> name, fname |-> fname, path |-> path, source |-> ThisPath,
     attributes |-> attrs, form |-> form, data |-> data, builder |-> target,
     groups |-> groups, datasets |-> datasets, links |-> links]

\* __read_dataset(h5obj, name) for the dataset at path of file fname:
\* the builders and the cache after it, and the builder it returns
RECURSIVE ReadDataset(_, _, _, _, _, _)
ReadDataset(f, fname, path, name, bs, cache) ==
    LET e == FileOf(fname, f)[path] IN
    IF e.ndims = 0 /\ e.data.tag = "regionref"
    THEN LET sub == ReadDataset(f, fname, e.data.path, Basename(e.data.path), bs, cache)
             all == Append(sub.builders,
                        MkBuilder("RegionBuilder", name, fname, path, e.attrs, "region",
                                  e.data, sub.id, {}, {}, {}))
         IN  [builders |-> all, id |-> Len(all),
              built |-> SetBuilt(sub.built, fname, e.data.path, sub.id)]
    ELSE LET form == IF e.ndims = 0 THEN "scalar"
                     ELSE IF e.ndims = 1 /\ e.data.tag \in {"text", "ref", "empty"}
                     THEN "list" ELSE "handle"
             all == Append(bs, MkBuilder("DatasetBuilder", name, fname, path, e.attrs, form,
                                         e.data, NoId, {}, {}, {}))
         IN  [builders |-> all, id |-> Len(all), built |-> cache]

\* a frame of __read_group: the group at path of file fname is read under the name
\* `name`; todo are the keys still to visit; ret says what the caller does with the
\* GroupBuilder: it is the root, a child (hard link) or the target of the link k
ReadFrame(f, fname, path, name, ret) ==
    [fname |-> fname, path |-> path, name |-> name, todo |-> Keys(FileOf(fname, f), path),
     groups |-> {}, datasets |-> {}, links |-> {}, ret |-> ret]

Ret(mode, k, tpath) == [mode |-> mode, k |-> k, tpath |-> tpath]

LinkBuilder(k, builder) == [name |-> k, builder |-> builder, source |-> ThisPath]

RTop == rstack[Len(rstack)]
RRest == SubSeq(rstack, 1, Len(rstack) - 1)

ReadFail(e) ==
    /\ pc' = "read_failed"
    /\ err' = e

\* read_builder: self.open(); self.__read_group(self.__file, ROOT_NAME) begins
read_builder ==
    /\ pc = "done"
    /\ pc' = "read"
    /\ handle' = "open"
    /\ built' = {}
    /\ builders' = << >>
    /\ rstack' = <<ReadFrame(file, ThisPath, << >>, ROOT_NAME, Ret("root", "", << >>))>>
    /\ Did("read_builder", Root)
    /\ UNCHANGED <<input, side, file, stack, ref_queue, err, hist>>

\* builder found in the cache, or read by __read_dataset: the frame after key k
\* of a link (kwargs['links'][builder_name] = LinkBuilder(k, builder))
LinkDone(fr, k, tpath, id) ==
    [fr EXCEPT !.todo = @ \ {k},
               !.links = DictPut(@, Basename(tpath), LinkBuilder(k, id))]

\* obj_type[builder.name] = builder
ChildDone(fr, k, kind, name, id) ==
    IF kind = "dataset"
    THEN [fr EXCEPT !.todo = @ \ {k}, !.datasets = DictPut(@, name, id)]
    ELSE [fr EXCEPT !.todo = @ \ {k}, !.groups = DictPut(@, name, id)]

\* one turn of the loop "for k in h5obj" of __read_group
read_member ==
    /\ pc = "read"
    /\ RTop.todo # {}
    /\ \E k \in RTop.todo :
        LET f == FileOf(RTop.fname, file)
            here == Append(RTop.path, k)
            e == f[here]
            isLink == e.kind \in {"soft", "external"}
            \* sub_h5obj: its file and its name, Missing for None
            sfile == IF e.kind = "external" THEN e.tfile ELSE RTop.fname
            spath == IF e.kind = "external"
                     THEN (IF e.tpath \in DOMAIN OtherFile THEN e.tpath ELSE Missing)
                     ELSE Resolve(f, here)
            key == IF isLink THEN e.tpath ELSE spath
            cached == GetBuilt(built, sfile, key)
            sub == FileOf(sfile, file)[spath]
            name == IF isLink THEN Basename(e.tpath) ELSE Basename(spath)
        IN  /\ Did("read_member", NoId)
            /\ IF spath = Missing
               THEN /\ ReadFail(RawErr("AttributeError"))
                    /\ UNCHANGED <<built, builders, rstack>>
               ELSE IF cached # NoId
               THEN /\ rstack' = Append(RRest,
                            IF isLink THEN LinkDone(RTop, k, e.tpath, cached)
                            ELSE ChildDone(RTop, k, sub.kind, builders[cached].name, cached))
                    /\ UNCHANGED <<built, builders, pc, err>>
               ELSE IF sub.kind = "dataset"
               THEN LET rd == ReadDataset(file, sfile, spath, name, builders, built) IN
                    /\ builders' = rd.builders
                    /\ built' = SetBuilt(rd.built, sfile, key, rd.id)
                    /\ rstack' = Append(RRest,
                            IF isLink THEN LinkDone(RTop, k, e.tpath, rd.id)
                            ELSE ChildDone(RTop, k, "dataset", name, rd.id))
                    /\ UNCHANGED <<pc, err>>
               ELSE IF Len(rstack) >= MaxDepth
               THEN /\ ReadFail(RawErr("RecursionError"))
                    /\ UNCHANGED <<built, builders, rstack>>
               ELSE /\ rstack' = Append(rstack,
                            ReadFrame(file, sfile, spath, name,
                                      Ret(IF isLink THEN "link" ELSE "child", k, key)))
                    /\ UNCHANGED <<built, builders, pc, err>>
    /\ UNCHANGED <<input, side, file, stack, ref_queue, handle, hist>>

\* the loop of __read_group has ended: ret = GroupBuilder(name, **kwargs) is returned
\* to the caller, which caches it and files it in its own kwargs
read_return ==
    /\ pc = "read"
    /\ RTop.todo = {}
    /\ LET fr == RTop
           f == FileOf(fr.fname, file)
           all == Append(builders,
                      MkBuilder("GroupBuilder", fr.name, fr.fname, fr.path, f[fr.path].attrs,
                                "none", NoData, NoId, fr.groups, fr.datasets, fr.links))
           id == Len(all)
           caller == rstack[Len(rstack) - 1]
       IN  /\ builders' = all
           /\ Did("read_return", NoId)
           /\ IF fr.ret.mode = "root"
              THEN /\ pc' = "read_done"
                   /\ rstack' = << >>
                   /\ UNCHANGED built
              ELSE /\ built' = SetBuilt(built, fr.fname, fr.ret.tpath, id)
                   /\ rstack' = Append(SubSeq(rstack, 1, Len(rstack) - 2),
                            IF fr.ret.mode = "link"
                            THEN LinkDone(caller, fr.ret.k, fr.ret.tpath, id)
                            ELSE ChildDone(caller, fr.ret.k, "group", fr.name, id))
                   /\ UNCHANGED pc
    /\ UNCHANGED <<input, side, file, stack, ref_queue, err, handle, hist>>

----------------------------------------------------------------------------
(* Chunked write: __chunked_iter_fill__ (h5tools.py 454-488)                *)
(* An index is 0-based as in the source; shape[d] is the extent of axis d.  *)

\* the most chunks a DataChunkIterator yields
MaxChunks == 3

\* Python None as a bound: slice(None).stop, an axis of maxshape with no limit
NoBound == -1

\* selections: an int, a slice start:stop, a list (a boolean mask, or a list of
\* integer indices) and a tuple of those, one per axis
SelInt(i) == [k |-> "int", i |-> i, start |-> 0, stop |-> 0, mask |-> FALSE,
              idx |-> << >>, items |-> << >>]
SelSlice(start, stop) == [k |-> "slice", i |-> 0, start |-> start, stop |-> stop,
                          mask |-> FALSE, idx |-> << >>, items |-> << >>]
SelList(mask, idx) == [k |-> "list", i |-> 0, start |-> 0, stop |-> 0, mask |-> mask,
                       idx |-> idx, items |-> << >>]
SelTuple(items) == [k |-> "tuple", i |-> 0, start |-> 0, stop |-> 0, mask |-> FALSE,
                    idx |-> << >>, items |-> items]
\* the slice ":" of a whole axis
SelAll == SelSlice(0, NoBound)

\* the bound of an int selection that forgets the element itself
IntBoundNoSucc(i) == i

\* isinstance(selection, int): selection+1
IntBound(i) == i + 1

\* np.nonzero(selection)[0]: the 0-based positions of the nonzero entries
Nonzero(idx) == {p - 1 : p \in {q \in 1..Len(idx) : idx[q] # 0}}

\* the bound that could not be computed: an IndexError was raised
BoundError == -2

SetMax(S) == CHOOSE m \in S : \A x \in S : x <= m

\* np.nonzero(selection)[0][-1]+1; [-1] of an empty array is an IndexError
ListBound(idx) == IF Nonzero(idx) = {} THEN BoundError ELSE SetMax(Nonzero(idx)) + 1

\* __selection_max_bounds__(selection)
RECURSIVE SelectionMaxBounds(_)
SelectionMaxBounds(selection) ==
    CASE selection.k = "int" -> IntBound(selection.i)
      [] selection.k = "slice" -> selection.stop
      [] selection.k = "list" -> ListBound(selection.idx)
      [] selection.k = "tuple" ->
            [j \in 1..Len(selection.items) |-> SelectionMaxBounds(selection.items[j])]

\* if not hasattr(max_bounds, '__len__'): max_bounds = (max_bounds,)
MaxBounds(selection) ==
    IF selection.k = "tuple" THEN SelectionMaxBounds(selection)
    ELSE <<SelectionMaxBounds(selection)>>

\* expand_dims: the axes whose bound is not None and exceeds the extent
ExpandDims(max_bounds, shape) ==
    {d \in 1..Len(max_bounds) : max_bounds[d] # NoBound /\ max_bounds[d] > shape[d]}

\* new_shape[expand_dims] = max_bounds[expand_dims]
NewShape(max_bounds, shape) ==
    [d \in 1..Len(shape) |->
        IF d \in ExpandDims(max_bounds, shape) THEN max_bounds[d] ELSE shape[d]]

\* dset.resize(new_shape) is refused beyond maxshape
FitsMaxShape(shape, maxshape) ==
    \A d \in 1..Len(shape) : maxshape[d] = NoBound \/ shape[d] <= maxshape[d]

\* the indices of the elements of a dataset of this shape
Indices(shape) ==
    IF Len(shape) = 1 THEN {<<i>> : i \in 0..(shape[1] - 1)}
    ELSE {<<i, j>> : i \in 0..(shape[1] - 1), j \in 0..(shape[2] - 1)}

\* the selection of axis d: a selection that is no tuple selects on the first
\* axis, and an axis a selection does not name is selected whole
AxisSel(selection, d) ==
    IF selection.k = "tuple"
    THEN IF d <= Len(selection.items) THEN selection.items[d] ELSE SelAll
    ELSE IF d = 1 THEN selection ELSE SelAll

\* the positions one axis selection names on an axis of this extent
AxisPositions(sel, extent) ==
    CASE sel.k = "int" -> {sel.i}
      [] sel.k = "slice" ->
            IF sel.stop = NoBound THEN sel.start..(extent - 1)
            ELSE sel.start..(sel.stop - 1)
      [] sel.k = "list" ->
            IF sel.mask THEN Nonzero(sel.idx) ELSE {sel.idx[p] : p \in 1..Len(sel.idx)}

\* the elements dset[selection] names
Selected(selection, shape) ==
    IF Len(shape) = 1
    THEN {<<i>> : i \in AxisPositions(AxisSel(selection, 1), shape[1])}
    ELSE {<<i, j>> : i \in AxisPositions(AxisSel(selection, 1), shape[1]),
                     j \in AxisPositions(AxisSel(selection, 2), shape[2])}

\* h5py accepts dset[selection] = ... only for elements inside the extent
Covers(shape, selection) == Selected(selection, shape) \subseteq Indices(shape)

\* dset.resize(new_shape): elements kept, new elements hold the fill value 0
Resize(d, new_shape) ==
    [d EXCEPT !.shape = new_shape,
              !.cells = [x \in Indices(new_shape) |->
                            IF x \in DOMAIN d.cells THEN d.cells[x] ELSE 0]]

\* dset[selection] = chunk.data, the data of chunk n being n everywhere
Assign(d, selection, n) ==
    [d EXCEPT !.cells = [x \in DOMAIN d.cells |->
                            IF x \in Selected(selection, d.shape) THEN n ELSE d.cells[x]]]

NoDset == [shape |-> << >>, maxshape |-> << >>, cells |-> << >>]
NoIterator == [todo |-> << >>, baseshape |-> << >>, max_shape |-> << >>]
NotFilling == [pc |-> "none", n |-> 0, written |-> << >>, err |-> ""]

\* the chunks of a DataChunkIterator in the order it yields them; chunk n is
\* todo[n], and fill.n chunks have been taken
\* the chunk selections an iterator over a dataset of 1 or 2 axes yields
Selections1 ==
    {SelInt(0), SelInt(2),
     SelSlice(0, 1), SelSlice(1, 3), SelSlice(3, 4), SelSlice(0, 2),
     SelList(TRUE, <<1, 0, 1>>), SelList(FALSE, <<0, 1>>), SelList(FALSE, <<3>>), SelList(FALSE, <<0>>)}
Selections2 ==
    {SelTuple(<<SelAll, SelSlice(0, 2)>>), SelTuple(<<SelSlice(0, 1), SelAll>>),
     SelTuple(<<SelInt(1), SelSlice(1, 3)>>), SelTuple(<<SelSlice(1, 2), SelInt(0)>>),
     SelInt(0)}

SeqsUpTo(S, n) == UNION {[1..m -> S] : m \in 1..n}

\* the DataChunkIterators: the chunks, recommended_data_shape() and max_shape
Iterators ==
    {[todo |-> c, baseshape |-> b, max_shape |-> m] :
        c \in SeqsUpTo(Selections1, MaxChunks), b \in {<<0>>, <<2>>},
        m \in {<<NoBound>>, <<3>>}}
    \cup
    {[todo |-> c, baseshape |-> b, max_shape |-> m] :
        c \in SeqsUpTo(Selections2, MaxChunks), b \in {<<0, 0>>, <<1, 2>>},
        m \in {<<NoBound, NoBound>>}}

\* parent.create_dataset(name, shape=baseshape, maxshape=data.max_shape, ...)
chunked_iter_fill ==
    /\ fill.pc = "start"
    /\ dset' = [shape |-> iter.baseshape, maxshape |-> iter.max_shape,
                cells |-> [x \in Indices(iter.baseshape) |-> 0]]
    /\ fill' = [fill EXCEPT !.pc = IF iter.todo = << >> THEN "filled" ELSE "filling"]
    /\ UNCHANGED <<session, iter, resolving, constructing, sweeping, caching, pathing>>

\* for chunk_i in data: one pass of the loop
chunk ==
    /\ fill.pc = "filling"
    /\ LET n == fill.n + 1
           selection == iter.todo[n]
           bounds == MaxBounds(selection)
       IN  /\ IF \E d \in 1..Len(bounds) : bounds[d] = BoundError
              THEN /\ fill' = [fill EXCEPT !.pc = "failed", !.n = n, !.err = "IndexError"]
                   /\ UNCHANGED dset
              ELSE LET new_shape == NewShape(bounds, dset.shape)
                       grown == IF ExpandDims(bounds, dset.shape) # {}
                                THEN Resize(dset, new_shape) ELSE dset
                   IN  IF ~FitsMaxShape(new_shape, dset.maxshape)
                       THEN /\ fill' = [fill EXCEPT !.pc = "failed", !.n = n,
                                                    !.err = "resize"]
                            /\ UNCHANGED dset
                       ELSE IF ~Covers(grown.shape, selection)
                       THEN /\ fill' = [fill EXCEPT !.pc = "failed", !.n = n,
                                                    !.err = "selection"]
                            /\ dset' = grown
                       ELSE /\ dset' = Assign(grown, selection, n)
                            /\ fill' = [fill EXCEPT
                                    !.pc = IF n = Len(iter.todo) THEN "filled"
                                           ELSE "filling",
                                    !.n = n,
                                    !.written = Append(@, [selection |-> selection,
                                                           shape |-> grown.shape])]
    /\ UNCHANGED <<session, iter, resolving, constructing, sweeping, caching, pathing>>

----------------------------------------------------------------------------
(* Dtype resolution: get_type, __dtypes, __resolve_dtype__ (h5tools.py 209-270) *)

\* Python None as a descriptor or as a resolved dtype
None == "None"

\* the storage types
VlenText == "vlen(text_type)"
VlenBytes == "vlen(binary_type)"
ObjectRef == "ref(Reference)"
RegionRef == "ref(RegionReference)"

\* the keys and values of HDF5IO.__dtypes
Dtypes ==
    [float |-> "np.float32", float32 |-> "np.float32", double |-> "np.float64",
     float64 |-> "np.float64", long |-> "np.int64", int64 |-> "np.int64",
     int |-> "np.int32", int32 |-> "np.int32", int16 |-> "np.int16", int8 |-> "np.int8",
     text |-> VlenText, utf |-> VlenText, utf8 |-> VlenText, ascii |-> VlenBytes,
     str |-> VlenBytes, uint32 |-> "np.uint32", uint16 |-> "np.uint16",
     uint8 |-> "np.uint8", ref |-> ObjectRef, reference |-> ObjectRef,
     object |-> ObjectRef, region |-> RegionRef]
    @@ ("utf-8" :> VlenText)

\* cls.__dtypes.get(key)
DtypesGet(key) == IF key \in DOMAIN Dtypes THEN Dtypes[key] ELSE None

\* descriptors: None, a tag (str), a reference spec (a dict with a reftype) and
\* a compound (a list of fields, each with a name and a dtype)
NoDescriptor == [k |-> "None", tag |-> "", fields |-> << >>]
Tag(t) == [k |-> "str", tag |-> t, fields |-> << >>]
RefSpec(t) == [k |-> "dict", tag |-> t, fields |-> << >>]
Compound(fields) == [k |-> "list", tag |-> "", fields |-> fields]

\* sample data: a string, a value with no __len__ and a sized collection
Str(v) == [k |-> "str", type |-> v, items |-> << >>]
Scalar(type) == [k |-> "scalar", type |-> type, items |-> << >>]
Sized(items) == [k |-> "sized", type |-> "list", items |-> items]

\* a resolved dtype, or the exception raised and the one it was raised while handling
Resolved(type) == [type |-> type, fields |-> << >>, raised |-> "", context |-> ""]
\* np.dtype([(name, dtype), ...])
Structured(fields) ==
    [type |-> "np.dtype", fields |-> fields, raised |-> "", context |-> ""]
Raised(exc, context) ==
    [type |-> None, fields |-> << >>, raised |-> exc, context |-> context]

\* get_type(data)
RECURSIVE get_type(_)
get_type(d) ==
    IF d.k = "str" THEN Resolved(VlenText)
    ELSE IF d.k = "scalar" THEN Resolved(d.type)
    ELSE IF Len(d.items) = 0 THEN Raised("ValueError", "")
    ELSE get_type(d.items[1])

\* __resolve_dtype_helper__(dtype) of a descriptor that is no list
Helper(dtype) ==
    IF dtype.k = "None" THEN None ELSE DtypesGet(dtype.tag)

\* __resolve_dtype_helper__(dtype): np.dtype([(x['name'], helper(x['dtype'])) ...])
\* for a list
resolve_dtype_helper(dtype) ==
    IF dtype.k = "list"
    THEN [j \in 1..Len(dtype.fields) |->
            <<dtype.fields[j].name, Helper(dtype.fields[j].dtype)>>]
    ELSE Helper(dtype)

\* __resolve_dtype__(dtype, data): the except clause formats its message with
\* `name` and `parent`, which no scope of the method defines
resolve_dtype_(dtype, d) ==
    LET helped == resolve_dtype_helper(dtype) IN
    IF dtype.k # "list" /\ helped = None
    THEN IF get_type(d).raised # ""
         THEN Raised("NameError", get_type(d).raised)
         ELSE get_type(d)
    ELSE IF dtype.k = "list" THEN Structured(helped) ELSE Resolved(helped)

\* the primitive tags of the specification: integers of 8 to 64 bits, signed and
\* unsigned, floats of 32 and 64 bits, UTF-8 text, ASCII bytes and the two references
PrimitiveTags ==
    {"int8", "int16", "int32", "int64", "uint8", "uint16", "uint32", "uint64",
     "float32", "float64", "utf8", "ascii", "object", "region"}

Descriptors ==
    {NoDescriptor}
    \cup {Tag(t) : t \in DOMAIN Dtypes \cup PrimitiveTags}
    \cup {RefSpec("object"), RefSpec("region")}
    \cup {Compound(<<[name |-> "id", dtype |-> Tag("int32")],
                     [name |-> "target", dtype |-> RefSpec("object")]>>)}

Samples ==
    {Str("a"), Scalar("int"), Scalar("float"), Sized(<< >>),
     Sized(<<Scalar("float"), Scalar("float")>>), Sized(<<Scalar("int")>>),
     Sized(<<Str("a"), Str("b")>>), Sized(<<Sized(<<Scalar("float")>>)>>),
     Sized(<<Sized(<< >>)>>)}

NotResolved == Raised("pending", "")

\* one call of __resolve_dtype__(dtype, data)
resolve_dtype ==
    /\ resolved = NotResolved
    /\ resolved' = resolve_dtype_(descriptor, sample)
    /\ UNCHANGED <<session, chunked, descriptor, sample, constructing, sweeping, caching, pathing>>

----------------------------------------------------------------------------
(* FeatureExtraction.__init__ (ecephys.py 360-406)                          *)

\* the longest axis of an argument
MaxLen == 3

\* the shape of data whose shape cannot be determined before it is read
Undetermined == << >>

\* assertEqualShape(data1, data2, axes1, axes2, name1, name2, ignore_undetermined):
\* the result of the comparison of axis axes1 of data1 with axis axes2 of data2
\* (axes count from 0) and the message that names what was compared
assertEqualShape(shape1, shape2, axes1, axes2, name1, name2, ignore_undetermined) ==
    [result |-> IF shape1 = Undetermined \/ shape2 = Undetermined
                THEN ignore_undetermined
                ELSE shape1[axes1 + 1] = shape2[axes2 + 1],
     message |-> [name1 |-> name1, axes1 |-> axes1, name2 |-> name2, axes2 |-> axes2]]

\* the three comparisons of __init__, in the order they are appended
ShapeValidators(a) ==
    <<assertEqualShape(a.features, a.times, 0, 0, "feature_shape", "times", TRUE),
      assertEqualShape(a.features, a.electrodes, 1, 0, "feature_shape", "electrodes", TRUE),
      assertEqualShape(a.features, a.description, 2, 0, "feature_shape", "description",
                       TRUE)>>

Failing(sv) == ~sv.result

\* an error message that stops at the first failing comparison
ErrorMsgFirst(svs) ==
    IF SelectSeq(svs, Failing) = << >> THEN << >>
    ELSE <<SelectSeq(svs, Failing)[1].message>>

\* error_msg += sv.message + "\n" for every sv whose result is false
ErrorMsg(svs) ==
    [j \in 1..Len(SelectSeq(svs, Failing)) |-> SelectSeq(svs, Failing)[j].message]

\* raise_error |= not sv.result
RaiseError(svs) == \E j \in 1..Len(svs) : ~svs[j].result

NoFields == [electrodes |-> Undetermined, description |-> Undetermined,
             times |-> Undetermined, features |-> Undetermined]
NotConstructed == [state |-> "none", fields |-> NoFields, error_msg |-> << >>]

Lengths == {Undetermined} \cup {<<n>> : n \in 1..MaxLen}
Shapes3 == {Undetermined} \cup {<<a, b, c>> : a, b, c \in 1..MaxLen}
Arguments == [electrodes : Lengths, description : Lengths, times : Lengths,
              features : Shapes3]

\* FeatureExtraction(electrodes, description, times, features)
FeatureExtraction_init ==
    /\ extraction.state = "new"
    /\ LET shape_validators == ShapeValidators(kwargs) IN
       IF RaiseError(shape_validators)
       THEN extraction' = [state |-> "raised", fields |-> NoFields,
                           error_msg |-> ErrorMsg(shape_validators)]
       ELSE extraction' = [state |-> "built", fields |-> kwargs, error_msg |-> << >>]
    /\ UNCHANGED <<session, chunked, resolving, kwargs, sweeping, caching, pathing>>

----------------------------------------------------------------------------
(* SweepTable (icephys.py 442-478)                                          *)

\* the most rows a SweepTable gets
MaxRows == 4

\* the PatchClampSeries: each has a name and its sweep_number
SeriesNames == {"a", "b", "c"}
SweepNumbers == {0, 1}
PatchClampSeries == [name : SeriesNames, sweep_number : SweepNumbers]

\* the columns of an empty table; series is an indexed column: the values of all
\* rows one after the other, and for each row the position where its values end
EmptyTable == [sweep_number |-> << >>, series |-> << >>, series_index |-> << >>]

\* DynamicTable.add_row(sweep_number=..., series=[...])
add_row(tbl, sweep_number, series) ==
    [sweep_number |-> Append(tbl.sweep_number, sweep_number),
     series |-> tbl.series \o series,
     series_index |-> Append(tbl.series_index, Len(tbl.series) + Len(series))]

\* self[(x, 'series')], x a row id counted from 0
RowSeries(tbl, x) ==
    SubSeq(tbl.series, IF x = 0 THEN 1 ELSE tbl.series_index[x] + 1,
           tbl.series_index[x + 1])

\* __get_row_ids(sweep_number): the row ids in ascending order
RECURSIVE GetRowIds(_, _, _)
GetRowIds(tbl, sweep_number, index) ==
    IF index >= Len(tbl.sweep_number) THEN << >>
    ELSE (IF tbl.sweep_number[index + 1] = sweep_number THEN <<index>> ELSE << >>)
         \o GetRowIds(tbl, sweep_number, index + 1)

\* matches: for x in ids: for y in self[(x, 'series')]: matches.append(y)
RECURSIVE Matches(_, _)
Matches(tbl, ids) ==
    IF ids = << >> THEN << >>
    ELSE RowSeries(tbl, Head(ids)) \o Matches(tbl, Tail(ids))

\* a return value: None, or a list
ReturnNone == [none |-> TRUE, list |-> << >>]
ReturnList(l) == [none |-> FALSE, list |-> l]

\* get_series that returns the matches however many there are
GetSeriesAlwaysList(tbl, sweep_number) ==
    ReturnList(Matches(tbl, GetRowIds(tbl, sweep_number, 0)))

\* get_series(sweep_number)
GetSeries(tbl, sweep_number) ==
    IF Len(GetRowIds(tbl, sweep_number, 0)) = 0 THEN ReturnNone
    ELSE ReturnList(Matches(tbl, GetRowIds(tbl, sweep_number, 0)))

NoCall == [op |-> "none", sweep_number |-> 0, value |-> ReturnNone]

\* add_entry(pcs)
add_entry ==
    /\ Len(added) < MaxRows
    /\ \E pcs \in PatchClampSeries :
        /\ sweep_table' = add_row(sweep_table, pcs.sweep_number, <<pcs>>)
        /\ added' = Append(added, pcs)
        /\ returned' = [op |-> "add_entry", sweep_number |-> pcs.sweep_number,
                        value |-> ReturnNone]
    /\ UNCHANGED <<session, chunked, resolving, constructing, caching, pathing>>

\* get_series(sweep_number)
get_series ==
    /\ \E n \in SweepNumbers \cup {2} :
        returned' = [op |-> "get_series", sweep_number |-> n,
                     value |-> GetSeries(sweep_table, n)]
    /\ UNCHANGED <<session, chunked, resolving, constructing, caching, pathing, sweep_table, added>>

----------------------------------------------------------------------------
(* HDF5IO.write with cache_spec (h5tools.py 62-82)                          *)

SPEC_LOC_ATTR == ".specloc"

\* path = 'specifications'
SpecPath == <<"specifications">>
\* spec_group.ref, the object reference stored in the attribute
SpecRef == 50

\* values of a keyword argument, and what a lookup gives besides them
PyTrue == "True"
PyFalse == "False"
KeyError == "KeyError"

\* getargs(key, kwargs): the value under the key; for a key that kwargs does not
\* hold, None or a KeyError
getargs(key, kw) == IF key \in DOMAIN kw THEN {kw[key]} ELSE {None, KeyError}

\* self.__file.attrs.get(SPEC_LOC_ATTR)
SpecLoc(f) == {kv \in f[<< >>].attrs : kv[1] = SPEC_LOC_ATTR}

\* lines 66-73: the group the attribute refers to, or a new group
\* 'specifications' and the attribute set to it
RequireSpecGroup(f) ==
    IF SpecLoc(f) # {} THEN f
    ELSE SetAttributes(IF SpecPath \in DOMAIN f THEN f
                       ELSE Put(f, SpecPath, GroupEntry(NoId)),
                       << >>, {<<SPEC_LOC_ATTR, SpecRef>>})

\* the namespaces a catalog can hold: name, version and the types it defines
Namespaces == [name : {"core", "ext"}, version : {"1", "2"}, types : SUBSET {"A", "B"}]
Catalogs ==
    {{}} \cup {{n} : n \in Namespaces}
    \cup {{n, m} : n \in {x \in Namespaces : x.name = "core"},
                   m \in {x \in Namespaces : x.name = "ext"}}

\* the file after super().write(...) of a container with nothing in it: new, or of
\* mode "a" with a dataset, or of mode "a" with specifications cached before
WrittenFiles ==
    {SetAttributes(f, << >>, Attributes(Root)) :
        f \in {EmptyFile, ExistingFile, RequireSpecGroup(ExistingFile)}}

\* HDF5IO.write after super().write(...) has returned: cache_spec is looked up
\* under the key 'cach_spec'; the body of `if cache_spec` sets the attribute and
\* then reads self.__manager, an attribute the class never assigns
write ==
    /\ pc = "done"
    /\ handle = "open"
    /\ \E cache_spec \in getargs("cach_spec", write_kwargs) :
        IF cache_spec = KeyError
        THEN Fail(RawErr("KeyError")) /\ UNCHANGED file
        ELSE IF cache_spec = PyTrue
        THEN Fail(RawErr("AttributeError")) /\ file' = RequireSpecGroup(file)
        ELSE pc' = "written" /\ UNCHANGED <<file, err>>
    /\ Did("write", Root)
    /\ UNCHANGED <<input, side, stack, ref_queue, handle, hist, readVars>>

----------------------------------------------------------------------------
(* __get_path on builders of any name (h5tools.py 315-323)                   *)

\* the names a builder below the root can carry
BuilderNames == {"a", "b", ROOT_NAME}

\* builder.name and builder.parent in the tree nt; the root is named ROOT_NAME and
\* its parent is None
NameOf(nt, b) == IF b = Root THEN ROOT_NAME ELSE nt[b].name
ParentOf(nt, b) == IF b = Root THEN NoId ELSE nt[b].parent

\* __get_path(builder): while curr is not None and curr.name != ROOT_NAME:
\* names.append(curr.name); curr = curr.parent; the names, reversed
RECURSIVE get_path(_, _)
get_path(nt, curr) ==
    IF curr = NoId \/ NameOf(nt, curr) = ROOT_NAME THEN << >>
    ELSE Append(get_path(nt, ParentOf(nt, curr)), NameOf(nt, curr))

\* the trees of three builders below the root: the children of one builder have
\* distinct names
NamedTrees ==
    {nt \in [NodeIds -> [name : BuilderNames, parent : {Root} \cup NodeIds]] :
        /\ \A i \in NodeIds : nt[i].parent \in Parents(i)
        /\ \A i, j \in NodeIds :
              (i # j /\ nt[i].parent = nt[j].parent) => nt[i].name # nt[j].name}

\* one call of __get_path, on a builder of the tree
get_path_call ==
    /\ named # << >>
    /\ \E b \in ({Root} \cup NodeIds) \ {c[1] : c \in paths} :
          paths' = paths \cup {<<b, get_path(named, b)>>}
    /\ UNCHANGED <<session, chunked, resolving, constructing, sweeping, caching, named>>

----------------------------------------------------------------------------
(* Stored files: what a file handed to read_builder can hold                *)

\* a stored value: the number of axes and the data, whose tag is the kind of its
\* elements ("text" and "ref" are stored with dtype('O'))
Form(ndims, tag) == [ndims |-> ndims,
                     data |-> [tag |-> tag, val |-> 1, path |-> << >>, region |-> 0]]
StoredForms ==
    {Form(0, "int"), Form(0, "text"), Form(1, "text"), Form(1, "ref"), Form(1, "int"),
     Form(2, "text")}
\* a scalar region reference
RegionForm == Form(0, "regionref")

\* the members of a stored file: member i is named as builder i, and lies in the
\* root or in a member that is a group
Members(i) ==
    {[kind |-> "none", parent |-> Root, form |-> Form(0, "none"), target |-> NoId]}
    \cup {[kind |-> "group", parent |-> p, form |-> Form(0, "none"), target |-> NoId] :
            p \in Parents(i)}
    \cup {[kind |-> "dataset", parent |-> p, form |-> fm, target |-> NoId] :
            p \in Parents(i), fm \in StoredForms}
    \cup {[kind |-> "dataset", parent |-> p, form |-> RegionForm, target |-> x] :
            p \in Parents(i), x \in NodeIds \ {i}}
    \cup {[kind |-> "soft", parent |-> p, form |-> Form(0, "none"), target |-> x] :
            p \in Parents(i), x \in ({Root} \cup NodeIds) \ {i}}
    \cup {[kind |-> "external", parent |-> p, form |-> Form(0, "none"), target |-> ExtB] :
            p \in Parents(i)}

WellFormedLayout(l) ==
    \A i \in NodeIds :
        /\ l[i].parent # Root => l[l[i].parent].kind = "group"
        /\ l[i].kind = "none" => \A j \in NodeIds : j > i => l[j].kind = "none"
        /\ (l[i].kind = "soft" /\ l[i].target # Root)
                => l[l[i].target].kind \in {"group", "dataset"}
        /\ l[i].form = RegionForm
                => l[l[i].target].kind = "dataset" /\ l[l[i].target].form # RegionForm

Layouts ==
    {l \in {<<m1, m2, m3>> : m1 \in Members(1), m2 \in Members(2), m3 \in Members(3)} :
        WellFormedLayout(l)}

\* the name of member i in the file
RECURSIVE LayoutPath(_, _)
LayoutPath(l, i) ==
    IF i = Root THEN << >>
    ELSE Append(LayoutPath(l, l[i].parent), BuilderName(i))

LayoutEntry(l, i) ==
    CASE l[i].kind = "group" -> GroupEntry(NoId)
      [] l[i].kind = "dataset" ->
            DatasetEntry(NoId, l[i].form.ndims,
                IF l[i].form = RegionForm
                THEN [tag |-> "regionref", val |-> 0,
                      path |-> LayoutPath(l, l[i].target), region |-> 1]
                ELSE l[i].form.data)
      [] l[i].kind = "soft" -> SoftLink(LayoutPath(l, l[i].target))
      [] l[i].kind = "external" -> ExternalLink(OtherPath, <<"x">>)

StoredFile(l) ==
    [p \in {<< >>} \cup {LayoutPath(l, i) : i \in {j \in NodeIds : l[j].kind # "none"}} |->
        IF p = << >> THEN GroupEntry(NoId)
        ELSE LayoutEntry(l, CHOOSE i \in NodeIds : l[i].kind # "none" /\ LayoutPath(l, i) = p)]

StoredFiles == {StoredFile(l) : l \in Layouts}

----------------------------------------------------------------------------
(* Specifications *)

\* no session of an HDF5IO: the state the other operations of the package run in
NoSession ==
    /\ T = <<[kind |-> "none", parent |-> Root, target |-> NoId],
             [kind |-> "none", parent |-> Root, target |-> NoId],
             [kind |-> "none", parent |-> Root, target |-> NoId]>>
    /\ treeSource = NoSource
    /\ file = EmptyFile
    /\ pc = "idle"
    /\ stack = << >>
    /\ ref_queue = << >>
    /\ err = NoErr
    /\ handle = "none"
    /\ enq = [b \in NodeIds |-> 0]
    /\ invoked = [b \in NodeIds |-> 0]
    /\ mainCreated = {}
    /\ last = [op |-> "none", b |-> NoId]
    /\ built = {}
    /\ builders = << >>
    /\ rstack = << >>

\* no call of __chunked_iter_fill__
NoChunked ==
    /\ iter = NoIterator
    /\ dset = NoDset
    /\ fill = NotFilling

\* no call of __resolve_dtype__
NoResolving ==
    /\ descriptor = NoDescriptor
    /\ sample = Str("")
    /\ resolved = NotResolved

\* no construction of a FeatureExtraction
NoConstructing ==
    /\ kwargs = NoFields
    /\ extraction = NotConstructed

\* a SweepTable as __init__ leaves it
NoSweeping ==
    /\ sweep_table = EmptyTable
    /\ added = << >>
    /\ returned = NoCall

\* write called with the default cache_spec=False and an empty catalog
NoCaching ==
    /\ write_kwargs = [cache_spec |-> PyFalse]
    /\ ns_catalog = {}

\* no call of __get_path besides those of the session
NoPathing ==
    /\ named = << >>
    /\ paths = {}

Init ==
    /\ T \in Trees
    /\ treeSource \in {ThisPath, NoSource}
    /\ file \in {EmptyFile, ExistingFile}
    \* a handle on a dataset of the file being written needs the dataset to be there
    /\ \A b \in NodeIds : T[b].target = StoredHere => file = ExistingFile
    /\ pc = "init"
    /\ stack = << >>
    /\ ref_queue = << >>
    /\ err = NoErr
    /\ handle = "none"
    /\ enq = [b \in NodeIds |-> 0]
    /\ invoked = [b \in NodeIds |-> 0]
    /\ mainCreated = {}
    /\ last = [op |-> "none", b |-> NoId]
    /\ built = {}
    /\ builders = << >>
    /\ rstack = << >>
    /\ NoChunked
    /\ NoResolving
    /\ NoConstructing
    /\ NoSweeping
    /\ NoCaching
    /\ NoPathing

WriteNext ==
    \/ write_builder
    \/ write_group
    \/ write_dataset
    \/ write_link
    \/ set_attributes
    \/ add_refs

Next ==
    \/ WriteNext
    \/ close

\* one write session, on a new or an existing file
Spec == Init /\ [][Next]_vars

\* write_builder calls on one HDF5IO object, one after the other
NextAgain ==
    \/ WriteNext
    \/ write_builder_again

SpecAgain == Init /\ [][NextAgain]_vars

\* a write session on a new file by builders whose source is the file, then a read
\* session on the file written
InitRT ==
    /\ Init
    /\ treeSource = ThisPath
    /\ file = EmptyFile

NextRT ==
    \/ WriteNext
    \/ read_builder
    \/ read_member
    \/ read_return

SpecRT == InitRT /\ [][NextRT]_vars

\* a read session on a stored file
InitRead ==
    /\ T = <<[kind |-> "none", parent |-> Root, target |-> NoId],
             [kind |-> "none", parent |-> Root, target |-> NoId],
             [kind |-> "none", parent |-> Root, target |-> NoId]>>
    /\ treeSource = ThisPath
    /\ file \in StoredFiles
    /\ pc = "done"
    /\ stack = << >>
    /\ ref_queue = << >>
    /\ err = NoErr
    /\ handle = "none"
    /\ enq = [b \in NodeIds |-> 0]
    /\ invoked = [b \in NodeIds |-> 0]
    /\ mainCreated = {}
    /\ last = [op |-> "none", b |-> NoId]
    /\ built = {}
    /\ builders = << >>
    /\ rstack = << >>
    /\ NoChunked
    /\ NoResolving
    /\ NoConstructing
    /\ NoSweeping
    /\ NoCaching
    /\ NoPathing

NextRead ==
    \/ read_builder
    \/ read_member
    \/ read_return

SpecRead == InitRead /\ [][NextRead]_vars

\* one call of __chunked_iter_fill__ on a DataChunkIterator
InitChunked ==
    /\ NoSession
    /\ NoCaching
    /\ NoPathing
    /\ NoSweeping
    /\ NoResolving
    /\ NoConstructing
    /\ iter \in Iterators
    /\ dset = NoDset
    /\ fill = [NotFilling EXCEPT !.pc = "start"]

NextChunked ==
    \/ chunked_iter_fill
    \/ chunk

SpecChunked == InitChunked /\ [][NextChunked]_vars

\* one call of __resolve_dtype__ on a descriptor and sample data
InitResolve ==
    /\ NoSession
    /\ NoCaching
    /\ NoPathing
    /\ NoSweeping
    /\ NoChunked
    /\ NoConstructing
    /\ descriptor \in Descriptors
    /\ sample \in Samples
    /\ resolved = NotResolved

NextResolve == resolve_dtype

SpecResolve == InitResolve /\ [][NextResolve]_vars

\* one construction of a FeatureExtraction
InitConstruct ==
    /\ NoSession
    /\ NoCaching
    /\ NoPathing
    /\ NoSweeping
    /\ NoChunked
    /\ NoResolving
    /\ kwargs \in Arguments
    /\ extraction = [NotConstructed EXCEPT !.state = "new"]

NextConstruct == FeatureExtraction_init

SpecConstruct == InitConstruct /\ [][NextConstruct]_vars

\* a new SweepTable, and calls of add_entry and get_series in any order
InitSweep ==
    /\ NoSession
    /\ NoCaching
    /\ NoPathing
    /\ NoChunked
    /\ NoResolving
    /\ NoConstructing
    /\ NoSweeping

NextSweep ==
    \/ add_entry
    \/ get_series

SpecSweep == InitSweep /\ [][NextSweep]_vars

\* HDF5IO.write(container, cache_spec=...) once super().write(...) has written a
\* container with nothing in it
InitCache ==
    /\ T = <<[kind |-> "none", parent |-> Root, target |-> NoId],
             [kind |-> "none", parent |-> Root, target |-> NoId],
             [kind |-> "none", parent |-> Root, target |-> NoId]>>
    /\ treeSource = ThisPath
    /\ file \in WrittenFiles
    /\ pc = "done"
    /\ stack = << >>
    /\ ref_queue = << >>
    /\ err = NoErr
    /\ handle = "open"
    /\ enq = [b \in NodeIds |-> 0]
    /\ invoked = [b \in NodeIds |-> 0]
    /\ mainCreated = {}
    /\ last = [op |-> "set_attributes", b |-> Root]
    /\ built = {}
    /\ builders = << >>
    /\ rstack = << >>
    /\ NoChunked
    /\ NoResolving
    /\ NoConstructing
    /\ NoSweeping
    /\ write_kwargs \in [cache_spec : {PyTrue, PyFalse}]
    /\ ns_catalog \in Catalogs
    /\ NoPathing

NextCache == write

SpecCache == InitCache /\ [][NextCache]_vars

\* calls of __get_path on the builders of one tree, in any order
InitPath ==
    /\ NoSession
    /\ NoChunked
    /\ NoResolving
    /\ NoConstructing
    /\ NoSweeping
    /\ write_kwargs = [cache_spec |-> PyFalse]
    /\ ns_catalog = {}
    /\ named \in NamedTrees
    /\ paths = {}

NextPath == get_path_call

SpecGetPath == InitPath /\ [][NextPath]_vars

----------------------------------------------------------------------------
(* Properties of the write path *)

NodePath(b) == GetPath(T, b)
ParentPath(b) == GetPath(T, BuilderParent(T, b))

AnyInvoked == \E b \in NodeIds : invoked[b] > 0

\* the builders that the main walk of write_builder writes at once: groups, datasets
\* that are not deferred, and the links of the groups below the root
Structural(b) ==
    \/ T[b].kind \in {"group", "scalar", "list", HandleKind}
    \/ T[b].kind = "link" /\ T[b].parent # Root

\* C2: within one write_builder call every structural write (groups, datasets that
\* are not deferred, links, their attributes) has happened before the first deferred
\* reference action is invoked, and no deferred action runs while the walk of the
\* tree is still in progress.
C2_StructuralBeforeDeferred ==
    AnyInvoked =>
        /\ stack = << >>
        /\ pc \in {"refs", "done", "failed"}
        /\ file[<< >>].attrs = Attributes(Root)
        /\ \A b \in NodeIds : Structural(b) =>
            /\ NodePath(b) \in DOMAIN file
            /\ file[NodePath(b)].origin = b
            /\ T[b].kind \notin {"link", HandleKind} => file[NodePath(b)].attrs = Attributes(b)

C2_Witness ==
    /\ pc = "done"
    /\ AnyInvoked
    /\ \E g, l \in NodeIds : T[g].kind = "group" /\ T[l].kind = "link" /\ T[l].parent = g

\* C3: when write_builder returns normally the deferred-reference queue is empty and
\* every action enqueued during the call has been invoked exactly once.
C3_QueueDrained ==
    pc = "done" =>
        /\ ref_queue = << >>
        /\ \A b \in NodeIds : /\ invoked[b] = enq[b]
                              /\ IsDeferred(T[b].kind) => invoked[b] = 1

C3_Witness ==
    /\ pc = "done"
    /\ \E a, b \in NodeIds : a # b /\ enq[a] = 1 /\ enq[b] = 1

\* the physical groups and datasets that were written for builder b
PhysicalOf(b) ==
    {p \in DOMAIN file : file[p].kind \in {"group", "dataset"} /\ file[p].origin = b}

\* the links and reference datasets written so far that name builder b
WrittenReferrers(b) ==
    {r \in NodeIds : /\ T[r].target = b
                     /\ T[r].kind = "link" \/ IsDeferred(T[r].kind)
                     /\ \E p \in DOMAIN file : file[p].origin = r}

\* C4: a builder that is the target of several links or references is written as
\* exactly one physical group or dataset, at its own path; a link or a reference adds
\* only an entry that addresses that path, never a second copy of the target.
C4_OnePhysicalNode ==
    \A b \in NodeIds :
        /\ Cardinality(PhysicalOf(b)) <= 1
        /\ WrittenReferrers(b) # {} /\ pc = "done" => PhysicalOf(b) = {NodePath(b)}
        /\ \A r \in WrittenReferrers(b) :
              /\ Cardinality({p \in DOMAIN file : file[p].origin = r}) = 1
              /\ \A p \in DOMAIN file : file[p].origin = r =>
                    IF T[r].kind = "link"
                    THEN file[p].kind \in {"soft", "external"} /\ file[p].tpath = NodePath(b)
                    ELSE file[p].data.path = NodePath(b)

C4_Witness ==
    /\ pc = "done"
    /\ \E b, r1, r2 \in NodeIds :
        /\ r1 # r2
        /\ {r1, r2} \subseteq WrittenReferrers(b)
        /\ T[r1].kind = "link"
        /\ PhysicalOf(b) = {NodePath(b)}

Ended == pc \in {"done", "failed"}

\* C6: the file handle opened at the start of write_builder or read_builder is closed
\* on every exit path of the operation, the failing ones included: no handle stays
\* open after the operation has ended.
C6_HandleClosedAtExit ==
    Ended => handle = "closed"

LinkPath(l) == Append(ParentPath(l), BuilderName(l))

C8_SameTreeSoftLink ==
    (last.op = "write_link" /\ T[last.b].target \in {Root} \cup NodeIds) =>
        /\ pc # "failed"
        /\ LinkPath(last.b) \in DOMAIN file
        /\ file[LinkPath(last.b)].kind = "soft"
        /\ file[LinkPath(last.b)].tpath = NodePath(T[last.b].target)

\* C9: writing a group, dataset or link whose name is in use by a sibling fails with
\* an error that carries the offending name and the parent's path, and the sibling
\* is left as it was.
C9_CollisionReported ==
    (pc = "failed" /\ err.cause = "exists") =>
        /\ err.ctx
        /\ err.name = BuilderName(last.b)
        /\ err.parent = ParentPath(last.b)
        /\ file[LinkPath(last.b)] = ExistingFile[LinkPath(last.b)]

\* C10: for every DatasetBuilder whose dtype is tagged as an object or region
\* reference (its own tag, or a field of a compound dtype) write_dataset creates no
\* dataset during the main pass and enqueues exactly one deferred action; the
\* dataset first exists in the file when that action runs.
C10_ReferenceDeferred ==
    \A b \in NodeIds : T[b].kind \in RefKinds =>
        /\ b \notin mainCreated
        /\ (last.op = "write_dataset" /\ last.b = b) => enq[b] = 1 /\ pc # "failed"
        /\ PhysicalOf(b) # {} => invoked[b] = 1

\* the region-reference dataset builder whose filler ran last
RegionFilled(b) == last = [op |-> "filler", b |-> b] /\ T[b].kind = "region"

\* what the path of the target of b names in the file
TargetEntry(b) == Resolve(file, NodePath(T[b].target))

\* C14: a region reference whose target resolves to something that is not a dataset
\* fails with the error of a reference to a non-dataset, and no dataset is created
\* for it; against a dataset target the region reference is written and carries the
\* requested selection.
C14_RegionNeedsDataset ==
    \A b \in NodeIds :
        (RegionFilled(b) /\ TargetEntry(b) # Missing) =>
            IF file[TargetEntry(b)].kind # "dataset"
            THEN /\ pc = "failed"
                 /\ err = NoDatasetErr
                 /\ PhysicalOf(b) = {}
            ELSE \/ pc = "failed" /\ err = ExistsErr /\ PhysicalOf(b) = {}
                 \/ /\ pc # "failed"
                    /\ PhysicalOf(b) = {NodePath(b)}
                    /\ file[NodePath(b)].kind = "dataset"
                    /\ file[NodePath(b)].data.tag = "regionref"
                    /\ file[NodePath(b)].data.path = TargetEntry(b)
                    /\ file[NodePath(b)].data.region = RegionOf(b)

\* the filler of a region reference to a group has run, after the filler of a
\* region reference to a dataset wrote its dataset
C14_Witness ==
    \E b, d \in NodeIds :
        /\ RegionFilled(b)
        /\ IsGroupB(T, T[b].target)
        /\ pc = "failed"
        /\ T[d].kind = "region" /\ PhysicalOf(d) = {NodePath(d)}

\* the handle dataset builder that write_dataset was given last
HandleWritten(b) == last = [op |-> "write_dataset", b |-> b] /\ T[b].kind = HandleKind

\* C15: when the data of a DatasetBuilder is a handle to a stored dataset,
\* write_dataset creates no dataset and copies no values: under the builder's name it
\* creates a soft link to the dataset's path if the dataset is in the file being
\* written, and an external link to its file and path otherwise.
C15_HandleBecomesLink ==
    \A b \in NodeIds :
        (HandleWritten(b) /\ pc # "failed") =>
            /\ PhysicalOf(b) = {}
            /\ DOMAIN file \ {NodePath(b)} = {p \in DOMAIN file : file[p].origin # b}
            /\ file[NodePath(b)].tpath = HandlePath(T[b].target)
            /\ IF HandleFile(T[b].target) = ThisPath
               THEN file[NodePath(b)].kind = "soft"
               ELSE /\ file[NodePath(b)].kind = "external"
                    /\ file[NodePath(b)].tfile = HandleFile(T[b].target)

\* a handle on a dataset of the file and a handle on a dataset of another file
\* have both been written
C15_Witness ==
    \E b, d \in NodeIds :
        /\ HandleWritten(b) /\ pc # "failed"
        /\ T[d].kind = HandleKind /\ T[d].target # T[b].target
        /\ NodePath(d) \in DOMAIN file /\ file[NodePath(d)].origin = d

\* the datasets of the group at path
DatasetsIn(path) ==
    {p[Len(p)] : p \in {q \in DOMAIN file : /\ Len(q) = Len(path) + 1
                                            /\ SubSeq(q, 1, Len(path)) = path
                                            /\ file[q].kind = "dataset"
                                            /\ file[q].ndims = 0}}

\* C17: when write is called with cache_spec enabled, after the write the root
\* carries the spec-location attribute, and the group it refers to holds for every
\* namespace of the catalog a group keyed by the namespace's name and version with
\* one scalar text dataset per type and one for the namespace itself; a
\* spec-location attribute that is already there is kept.
C17_SpecCached ==
    (write_kwargs.cache_spec = PyTrue /\ last.op = "write") =>
        /\ pc = "written"
        /\ SpecLoc(file) = {<<SPEC_LOC_ATTR, SpecRef>>}
        /\ \A ns \in ns_catalog :
            /\ SpecPath \o <<ns.name, ns.version>> \in DOMAIN file
            /\ DatasetsIn(SpecPath \o <<ns.name, ns.version>>) = ns.types \cup {"namespace"}

\* the exception deferred action i of the queue ends with when it runs on file f
FillerErr(f, i) == Filler(T, f, ref_queue[i]).err
\* the file after deferred action j of the queue has run on the file as it is
FileAfter(j) == Filler(T, file, ref_queue[j]).file

\* C21: each deferred reference action is self-contained: whether it succeeds does
\* not depend on whether another action that is still queued has already run, so no
\* action fails because of the order in which the queue is drained.
C21_SelfContainedActions ==
    pc = "refs" =>
        \A i, j \in 1..Len(ref_queue) :
            i # j => FillerErr(FileAfter(j), i) = FillerErr(file, i)

\* the link that was written for the LinkBuilder l is in the file
LinkWritten(l) ==
    /\ LinkPath(l) \in DOMAIN file
    /\ file[LinkPath(l)].origin = l
    /\ file[LinkPath(l)].kind \in {"soft", "external"}

\* C23: when write_builder has returned, every link of the builder tree it was
\* given is in the file, the LinkBuilders held by the root GroupBuilder included.
C23_EveryLinkWritten ==
    pc = "done" => \A l \in NodeIds : T[l].kind = "link" => LinkWritten(l)

\* the children of the group builder g, and the loop of write_group that visits a
\* child: 1 sub-groups, 2 datasets, 3 links
ChildrenOf(g) == {c \in NodeIds : T[c].kind # "none" /\ T[c].parent = g}
LoopOf(c) == CASE T[c].kind = "group" -> 1
               [] T[c].kind = "link" -> 3
               [] OTHER -> 2

\* the node written for builder b is in the file
InFile(b) == NodePath(b) \in DOMAIN file /\ file[NodePath(b)].origin = b

\* write_group, write_dataset or write_link has been called for child c
Started(c) == IF IsDeferred(T[c].kind) THEN enq[c] > 0 ELSE InFile(c)
\* ... and has returned
Returned(c) ==
    /\ Started(c)
    /\ T[c].kind = "group" => file[NodePath(c)].attrs = Attributes(c)

\* C24: write_group creates the group before any of its children, then writes all
\* its sub-groups, then all its datasets, then all its links, and sets the group's
\* own attributes last; no child is created before its parent group exists.
C24_WriteGroupOrder ==
    \A g \in NodeIds : T[g].kind = "group" =>
        /\ \A c \in ChildrenOf(g) : Started(c) =>
              /\ InFile(g) /\ file[NodePath(g)].kind = "group"
              /\ \A d \in ChildrenOf(g) : LoopOf(d) < LoopOf(c) => Returned(d)
        /\ (InFile(g) /\ file[NodePath(g)].attrs # {}) =>
              /\ file[NodePath(g)].attrs = Attributes(g)
              /\ \A c \in ChildrenOf(g) : Returned(c)

\* a group with a sub-group and a link has been written, attributes included
C24_Witness ==
    \E g, c, l \in NodeIds :
        /\ T[g].kind = "group" /\ T[c].kind = "group" /\ T[l].kind = "link"
        /\ {c, l} \subseteq ChildrenOf(g)
        /\ Returned(c) /\ Returned(l)
        /\ file[NodePath(g)].attrs = Attributes(g)

\* C25: the deferred-reference queue is drained last-in-first-out: an action is
\* enqueued behind those already queued, and __add_refs always takes and invokes
\* the most recently enqueued action that remains.
C25_DrainedLastInFirstOut ==
    [][/\ Len(ref_queue') > Len(ref_queue) =>
            /\ SubSeq(ref_queue', 1, Len(ref_queue)) = ref_queue
            /\ Len(ref_queue') = Len(ref_queue) + 1
            /\ ref_queue'[Len(ref_queue')].b = last'.b
       /\ Len(ref_queue') < Len(ref_queue) =>
            /\ ref_queue' = SubSeq(ref_queue, 1, Len(ref_queue) - 1)
            /\ last' = [op |-> "filler", b |-> ref_queue[Len(ref_queue)].b]
            /\ invoked'[ref_queue[Len(ref_queue)].b] = invoked[ref_queue[Len(ref_queue)].b] + 1
      ]_vars

\* three actions were enqueued and all three have been invoked
C25_Witness ==
    /\ pc = "done"
    /\ \A b \in NodeIds : enq[b] = 1 /\ invoked[b] = 1

\* C30: the deferred-reference queue is empty at the start of every write_builder
\* call on an HDF5IO object, also after an earlier call on the object has failed:
\* no action of an aborted write is left for a later write to run.
C30_QueueEmptyAtStart ==
    last.op = "write_builder" => ref_queue = << >>

----------------------------------------------------------------------------
(* Properties of the read path *)

Built == 1..Len(builders)

PlaceOf(i) == <<builders[i].fname, builders[i].path>>

\* the builder the session holds for the physical node that builder i was read from
SessionBuilder(i) == GetBuilt(built, builders[i].fname, builders[i].path)

\* C5: during one read session at most one Builder is constructed per physical node,
\* keyed by (file name, path); a LinkBuilder's target and the entry of the owning
\* group's groups/datasets mapping are that one Builder, whether the link or the node
\* was met first; and a cache entry, once set, is never removed or replaced.
C5_OneBuilderPerNode ==
    /\ [](/\ \A i, j \in Built : i # j => PlaceOf(i) # PlaceOf(j)
          /\ \A g \in Built :
                /\ \A c \in builders[g].groups \cup builders[g].datasets :
                        SessionBuilder(c[2]) = c[2]
                /\ \A l \in builders[g].links : SessionBuilder(l[2].builder) = l[2].builder)
    /\ [][pc = "read" => built \subseteq built']_vars

\* what a tree says about one node: its path, its kind, its attributes, its dataset
\* value, and for a link or a reference the file and path of its logical target
Fact(path, kind, attrs, data, tfile, tpath) ==
    [path |-> path, kind |-> kind, attrs |-> attrs, data |-> data,
     tfile |-> tfile, tpath |-> tpath]

\* the value of the dataset builder b of the tree handed to write_builder
BuilderData(b) ==
    CASE T[b].kind = "objref" ->
            [tag |-> "ref", val |-> 0, path |-> NodePath(T[b].target), region |-> NoRegion]
      [] T[b].kind = "region" ->
            [tag |-> "regionref", val |-> 0, path |-> NodePath(T[b].target),
             region |-> RegionOf(b)]
      [] T[b].kind = "compound" ->
            [tag |-> "refrow", val |-> b, path |-> NodePath(T[b].target), region |-> NoRegion]
      [] T[b].kind = "reflist" -> EmptyRefs
      [] OTHER -> IntData(b)

\* the tree handed to write_builder
TreeFacts ==
    {Fact(<< >>, "group", Attributes(Root), NoData, "", << >>)}
    \cup {Fact(NodePath(b), "group", Attributes(b), NoData, "", << >>) :
            b \in {x \in NodeIds : T[x].kind = "group"}}
    \cup {Fact(NodePath(b), "dataset", Attributes(b), BuilderData(b), "", << >>) :
            b \in {x \in NodeIds : T[x].kind \in DatasetKinds}}
    \cup {Fact(NodePath(b), "link", {}, NoData,
               BuilderSource(T, treeSource, T[b].target), NodePath(T[b].target)) :
            b \in {x \in NodeIds : T[x].kind = "link"}}

\* the value of the dataset builder i made by read: a RegionBuilder names the
\* dataset of its target builder and the region
ReadData(i) ==
    IF builders[i].cls = "RegionBuilder"
    THEN [builders[i].data EXCEPT !.path = builders[builders[i].builder].path]
    ELSE builders[i].data

\* the tree below builder i made by read, i at path
RECURSIVE ReadFacts(_, _)
ReadFacts(i, path) ==
    IF builders[i].cls = "GroupBuilder"
    THEN {Fact(path, "group", builders[i].attributes, NoData, "", << >>)}
         \cup UNION {ReadFacts(c[2], Append(path, builders[c[2]].name)) :
                        c \in builders[i].groups \cup builders[i].datasets}
         \cup {Fact(Append(path, l[2].name), "link", {}, NoData,
                    builders[l[2].builder].fname, builders[l[2].builder].path) :
                        l \in builders[i].links}
    ELSE {Fact(path, "dataset", builders[i].attributes, ReadData(i), "", << >>)}

\* every link and reference of the tree names a builder of the tree, or one stored
\* in another file
NoDanglingLinks ==
    \A b \in NodeIds :
        T[b].target # NoId => T[b].target \in {Root, ExtB} \cup NodeIds

\* C1: for every Builder tree with no dangling links, writing it with write_builder
\* and reading the file back with read_builder gives a structurally equivalent tree:
\* the same paths, attribute values and dataset values, every link resolved to the
\* same logical target.
C1_RoundTrip ==
    (NoDanglingLinks /\ pc \in {"read_done", "read_failed"}) =>
        /\ pc = "read_done"
        /\ ReadFacts(Len(builders), << >>) = TreeFacts

\* the stored dataset that dataset builder i was read from
EntryOf(i) == FileOf(builders[i].fname, file)[builders[i].path]

\* C18: dataset reads classify by the number of axes: a dataset of no axis gives
\* its scalar value (a RegionBuilder if the value is a region reference), a dataset
\* of one axis of variable-length text gives the list of its strings, and every
\* other dataset gives a lazy handle to the stored array.
C18_ReadClassification ==
    \A i \in 1..Len(builders) :
        builders[i].cls # "GroupBuilder" =>
            IF EntryOf(i).ndims = 0
            THEN IF EntryOf(i).data.tag = "regionref"
                 THEN builders[i].cls = "RegionBuilder"
                 ELSE /\ builders[i].cls = "DatasetBuilder"
                      /\ builders[i].form = "scalar"
                      /\ builders[i].data = EntryOf(i).data
            ELSE /\ builders[i].cls = "DatasetBuilder"
                 /\ builders[i].form =
                        IF EntryOf(i).ndims = 1 /\ EntryOf(i).data.tag = "text"
                        THEN "list" ELSE "handle"

\* the RegionBuilders the read session has constructed
RegionBuilders == {i \in Built : builders[i].cls = "RegionBuilder"}

\* C26: the target of a RegionBuilder produced by read is the Builder the session
\* holds for the referenced dataset at its own (file, path): the referenced dataset
\* is not constructed again when it is already cached, nor when the traversal
\* reaches it later.
C26_RegionTargetIsSessionBuilder ==
    \A r \in RegionBuilders :
        /\ SessionBuilder(builders[r].builder) = builders[r].builder
        /\ \A j \in Built : PlaceOf(j) = PlaceOf(builders[r].builder)
                                => j = builders[r].builder

\* the GroupBuilders the read session has constructed
GroupBuilders == {i \in Built : builders[i].cls = "GroupBuilder"}

\* the names of the links of the physical group that GroupBuilder g was read from
PhysicalLinks(g) ==
    {k \in Keys(FileOf(builders[g].fname, file), builders[g].path) :
        FileOf(builders[g].fname, file)[Append(builders[g].path, k)].kind
            \in {"soft", "external"}}

\* C27: in a GroupBuilder produced by read every physical link of the group has
\* its LinkBuilder in `links`, carrying the link's own name, so there are as many
\* LinkBuilders as the physical group has links, also when two links have targets
\* with one base name or one target.
C27_EveryLinkRead ==
    \A g \in GroupBuilders :
        /\ {l[2].name : l \in builders[g].links} = PhysicalLinks(g)
        /\ Cardinality(builders[g].links) = Cardinality(PhysicalLinks(g))

\* C28: every Builder produced by read carries as source the file its physical
\* node is stored in: a Builder read through an external link has the external
\* file as its source, not the file that holds the link.
C28_SourceIsNodeFile ==
    \A i \in Built : builders[i].source = builders[i].fname

\* the physical nodes whose __read_group call is in progress, outermost first
InProgress == [n \in 1..Len(rstack) |-> <<rstack[n].fname, rstack[n].path>>]

\* C20: during read no physical node is visited again while its own read is in
\* progress, also when a link inside a group points to that group or to one of its
\* ancestors, and read_builder finishes on every finite file.
C20_NoRevisitInProgress ==
    /\ \A n, k \in 1..Len(rstack) : n # k => InProgress[n] # InProgress[k]
    /\ ~(pc = "read_failed" /\ err = RawErr("RecursionError"))

----------------------------------------------------------------------------
(* Properties of the chunked write *)

\* a selection made of integers and ranges, alone or one per axis
PlainAxis(sel) == sel.k \in {"int", "slice"}
PlainSelection(sel) ==
    \/ PlainAxis(sel)
    \/ sel.k = "tuple" /\ \A j \in 1..Len(sel.items) : PlainAxis(sel.items[j])
PlainChunks == \A n \in 1..Len(iter.todo) : PlainSelection(iter.todo[n])

\* the upper bounds the selections of the chunks put on axis d: index + 1 for an
\* integer, the upper bound of a range that has one
UpperBounds(d) ==
    {IF AxisSel(iter.todo[n], d).k = "int" THEN AxisSel(iter.todo[n], d).i + 1
     ELSE AxisSel(iter.todo[n], d).stop : n \in 1..Len(iter.todo)} \ {NoBound}

\* the extents in order: at creation, at each write, and now
Extents ==
    <<iter.baseshape>> \o [n \in 1..Len(fill.written) |-> fill.written[n].shape]
        \o <<dset.shape>>

\* the chunks [0:1], [1:3], [3:4] handed to an empty dataset with no limit
ThreeRanges ==
    /\ iter.todo = <<SelSlice(0, 1), SelSlice(1, 3), SelSlice(3, 4)>>
    /\ iter.baseshape = <<0>>
    /\ iter.max_shape = <<NoBound>>

ListChunks == {n \in 1..fill.n : iter.todo[n].k = "list"}

\* the positions of the axis a list selection names: the true entries of a mask,
\* the entries of a list of indices
ListPositions(sel) == AxisPositions(sel, 0)

\* C22: __selection_max_bounds__ of a list or array selection is one past the
\* highest selected position: for a boolean mask one past the index of its last
\* true entry, for a list of integer indices one past the largest index of the list.
C22_ListSelectionBound ==
    \A n \in ListChunks :
        ListPositions(iter.todo[n]) # {} =>
            SelectionMaxBounds(iter.todo[n]) = SetMax(ListPositions(iter.todo[n])) + 1

----------------------------------------------------------------------------
(* Properties of dtype resolution *)

\* the concrete storage type of each primitive tag
StorageType ==
    [int8 |-> "np.int8", int16 |-> "np.int16", int32 |-> "np.int32",
     int64 |-> "np.int64", uint8 |-> "np.uint8", uint16 |-> "np.uint16",
     uint32 |-> "np.uint32", uint64 |-> "np.uint64", float32 |-> "np.float32",
     float64 |-> "np.float64", utf8 |-> VlenText, ascii |-> VlenBytes,
     object |-> ObjectRef, region |-> RegionRef]

\* C12: for every primitive tag the resolver returns the tag's concrete storage
\* type whatever the sample data is; the sample data is inspected only when no
\* descriptor is given.
C12_TagWinsOverData ==
    (resolved # NotResolved /\ descriptor.k = "str" /\ descriptor.tag \in PrimitiveTags)
        => resolved = Resolved(StorageType[descriptor.tag])

\* C13: with no descriptor a string resolves to text, a value that is not sized
\* to its own type, a non-empty sized collection to the type of its first element,
\* recursively, so that [1.5, 2.5] resolves to a floating-point type, and an empty
\* sized collection fails with the error that says the type cannot be determined.
C13_Introspection ==
    (resolved # NotResolved /\ descriptor = NoDescriptor) =>
        /\ sample.k = "str" => resolved = Resolved(VlenText)
        /\ sample.k = "scalar" => resolved = Resolved(sample.type)
        /\ sample = Sized(<<Scalar("float"), Scalar("float")>>)
                => resolved = Resolved("float")
        /\ (sample.k = "sized" /\ sample.items # << >>)
                => resolved = resolve_dtype_(NoDescriptor, sample.items[1])
        /\ sample = Sized(<< >>)
                => resolved.raised \in {"ValueError", "Exception"}

----------------------------------------------------------------------------
(* Properties of FeatureExtraction *)

Determined ==
    \A f \in DOMAIN kwargs : kwargs[f] # Undetermined

\* the comparisons that fail: the argument and the axis of features it belongs to
Mismatches ==
    {c \in {<<"times", 0>>, <<"electrodes", 1>>, <<"description", 2>>} :
        kwargs.features[c[2] + 1] # kwargs[c[1]][1]}

\* C16: the construction succeeds exactly when axis 0 of features matches the
\* length of times, axis 1 the length of electrodes and axis 2 the length of
\* description; otherwise one error is raised whose message has the message of
\* every failing comparison, and the fields of the object are not initialised.
C16_ShapeValidation ==
    (Determined /\ extraction.state \in {"built", "raised"}) =>
        /\ extraction.state = "built" <=> Mismatches = {}
        /\ extraction.state = "built" => extraction.fields = kwargs
        /\ extraction.state = "raised" =>
            /\ extraction.fields = NoFields
            /\ {<<extraction.error_msg[j].name2, extraction.error_msg[j].axes1>> :
                    j \in 1..Len(extraction.error_msg)} = Mismatches
            /\ Len(extraction.error_msg) = Cardinality(Mismatches)

\* features (3, 2, 1) with times 3, electrodes 2, description 1 has been accepted;
\* or two comparisons failed and the error names both
C16_Witness ==
    \/ /\ extraction.state = "built"
       /\ kwargs = [features |-> <<3, 2, 1>>, times |-> <<3>>, electrodes |-> <<2>>,
                    description |-> <<1>>]
    \/ /\ extraction.state = "raised" /\ Determined
       /\ Cardinality(Mismatches) = 2

----------------------------------------------------------------------------
(* Properties of SweepTable *)

HasSweep(n) == \E j \in 1..Len(added) : added[j].sweep_number = n

\* the series added with the sweep number that get_series was asked for last
AddedWithSweep ==
    LET Asked(pcs) == pcs.sweep_number = returned.sweep_number
    IN  SelectSeq(added, Asked)

----------------------------------------------------------------------------
(* Properties of __get_path *)

\* the names of the ancestors of b from the root of the tree down to b itself
RECURSIVE AncestorNames(_)
AncestorNames(b) ==
    IF b = Root THEN << >>
    ELSE Append(AncestorNames(named[b].parent), named[b].name)

\* C29: __get_path returns for every builder of the tree the list of all ancestor
\* names from the root of the tree down to the builder, and two builders of one
\* tree never get one path, whatever the names of the builders below the root.
C29_PathsCompleteAndUnique ==
    \A c \in paths :
        /\ c[2] = AncestorNames(c[1])
        /\ \A d \in paths : d[1] # c[1] => d[2] # c[2]

====
